---- MODULE Spec2Model ----
(***************************************************************************)
(* Model of the allmedia chaincode (src/chaincode.go): the key-value       *)
(* ledger reached through the shim stub, the two index collections, the    *)
(* Invoke and Query dispatchers and the handlers behind them.              *)
(*                                                                         *)
(* Go slices are 0-based and TLA+ sequences 1-based: args[1] below is the  *)
(* code's args[0].  A stored value ("bytes") is a record tagged by kind:   *)
(* "nil" (what GetState hands back for a key never written), "list" (the   *)
(* JSON of a []string), "object" (the JSON of a Track or an Account) and   *)
(* "null" (the JSON of a nil slice).                                       *)
(***************************************************************************)
EXTENDS Integers, Sequences, FiniteSets, TLC

VARIABLES
    ledger,     \* the world state: key -> bytes
    prev,       \* the world state before the last invocation
    last,       \* the last invocation: its arguments and what it returned
    returned,   \* what the successful append_id(create = true) calls returned
    ledger0,    \* the world state at the start
    adds        \* how many add_account / add_track invocations were run

vars == <<ledger, prev, last, returned, ledger0, adds>>

-----------------------------------------------------------------------------
(* Bounds of the model *)

MaxAdds == 1        \* add_account / add_track invocations of one run
MaxPending == 2     \* pending payments of an account before register_track is no longer tried
MaxCreate == 11     \* entries in an index before append_id(create) is no longer tried

-----------------------------------------------------------------------------
(* Program constants *)

accountIndexStr == "_accounts"
trackIndexStr == "_tracks"

-----------------------------------------------------------------------------
(* Bytes and JSON *)

Nil == [kind |-> "nil"]
Null == [kind |-> "null"]

\* json.Marshal of a []string
MarshalIndex(ids) == [kind |-> "list", ids |-> ids]

\* json.Unmarshal(bytes, &[]string): a JSON array decodes, everything else
\* (no bytes at all, a JSON object) is an error and leaves the slice nil.
UnmarshalIndex(bytes) ==
    IF bytes.kind = "list"
    THEN [err |-> FALSE, val |-> bytes.ids]
    ELSE [err |-> TRUE, val |-> <<>>]

Beneficiary(accountId, percentage) ==
    [AccountId |-> accountId, Percentage |-> percentage]

\* The JSON text of a Track, as a caller passes it to add_track.
TrackJson(id, price, beneficiaries) ==
    [kind |-> "object", shape |-> "track", id |-> id, price |-> price,
     beneficiaries |-> beneficiaries, pendingPayments |-> <<>>]

\* The JSON text of an Account without payments, as a caller passes it.
AccountJson(id) ==
    [kind |-> "object", shape |-> "account", id |-> id, price |-> 0,
     beneficiaries |-> <<>>, pendingPayments |-> <<>>]

ZeroTrack == [Id |-> "", Beneficiaries |-> <<>>, Price |-> 0]
ZeroAccount == [Id |-> "", PendingPayments |-> <<>>]

\* json.Unmarshal(bytes, &Track): any JSON object decodes (fields the struct
\* does not have are skipped, fields the object does not have stay zero).
UnmarshalTrack(bytes) ==
    IF bytes.kind = "object"
    THEN [err |-> FALSE,
          val |-> [Id |-> bytes.id, Beneficiaries |-> bytes.beneficiaries,
                   Price |-> bytes.price]]
    ELSE [err |-> TRUE, val |-> ZeroTrack]

\* json.Unmarshal(bytes, &Account)
UnmarshalAccount(bytes) ==
    IF bytes.kind = "object"
    THEN [err |-> FALSE,
          val |-> [Id |-> bytes.id, PendingPayments |-> bytes.pendingPayments]]
    ELSE [err |-> TRUE, val |-> ZeroAccount]

\* json.Marshal of an Account: only the Account's fields are written.
MarshalAccount(a) ==
    [kind |-> "object", shape |-> "account", id |-> a.Id, price |-> 0,
     beneficiaries |-> <<>>, pendingPayments |-> a.PendingPayments]

\* json.Marshal of a []Track: a nil slice is written as null.
MarshalTracks(tracks) ==
    IF tracks = <<>> THEN Null ELSE [kind |-> "tracks", items |-> tracks]

Digit(d) ==
    CASE d = 0 -> "0" [] d = 1 -> "1" [] d = 2 -> "2" [] d = 3 -> "3"
      [] d = 4 -> "4" [] d = 5 -> "5" [] d = 6 -> "6" [] d = 7 -> "7"
      [] d = 8 -> "8" [] d = 9 -> "9"

\* strconv.Itoa of a non-negative int
RECURSIVE Itoa(_)
Itoa(n) == IF n < 10 THEN Digit(n) ELSE Itoa(n \div 10) \o Digit(n % 10)

-----------------------------------------------------------------------------
(* The ledger behind the stub.  `failed` says that this call is the one    *)
(* the ledger refuses.                                                     *)

GetState(L, key, failed) ==
    IF failed THEN [err |-> TRUE, bytes |-> Nil]
    ELSE [err |-> FALSE, bytes |-> L[key]]

PutState(L, key, value, failed) ==
    IF failed THEN [err |-> TRUE, ledger |-> L]
    ELSE [err |-> FALSE, ledger |-> [L EXCEPT ![key] = value]]

-----------------------------------------------------------------------------
(* Utility functions.  `fail` is the ordinal of the stub call of the       *)
(* invocation that the ledger refuses (0: none).                           *)

\* append_id as it would be with the new id numbered len(tmpIndex) instead of
\* len(tmpIndex) + 1.
append_id_no_increment(L, indexStr, id, create, fail) ==
    LET got == GetState(L, indexStr, fail = 1)
    IN  IF got.err
        THEN [err |-> TRUE, newId |-> "", ledger |-> L]
        ELSE LET tmpIndex == UnmarshalIndex(got.bytes).val
                 newId == IF create THEN id \o Itoa(Len(tmpIndex)) ELSE id
                 put == PutState(L, indexStr,
                                 MarshalIndex(Append(tmpIndex, newId)), fail = 2)
             IN  IF put.err
                 THEN [err |-> TRUE, newId |-> "", ledger |-> L]
                 ELSE [err |-> FALSE, newId |-> newId, ledger |-> put.ledger]

\* append_id: "create": true -> create new ID, false -> append the id
append_id(L, indexStr, id, create, fail) ==
    LET got == GetState(L, indexStr, fail = 1)
    IN  IF got.err
        THEN [err |-> TRUE, newId |-> "", ledger |-> L]
        ELSE LET tmpIndex == UnmarshalIndex(got.bytes).val   \* the error is dropped
                 newId == IF create THEN id \o Itoa(Len(tmpIndex) + 1) ELSE id
                 put == PutState(L, indexStr,
                                 MarshalIndex(Append(tmpIndex, newId)), fail = 2)
             IN  IF put.err
                 THEN [err |-> TRUE, newId |-> "", ledger |-> L]
                 ELSE [err |-> FALSE, newId |-> newId, ledger |-> put.ledger]

-----------------------------------------------------------------------------
(* Invoke functions.  Each returns [err, payload, ledger]: the error flag, *)
(* the bytes returned and the world state the handler leaves behind.       *)

Success(L, payload) == [err |-> FALSE, payload |-> payload, ledger |-> L]
Failure(L) == [err |-> TRUE, payload |-> Nil, ledger |-> L]

add_account(L, args, fail) ==
    LET r == append_id(L, accountIndexStr, args[1], FALSE, fail)
    IN  IF r.err THEN Failure(r.ledger)
        ELSE LET put == PutState(r.ledger, r.newId, args[2], fail = 3)
             IN  IF put.err THEN Failure(put.ledger) ELSE Success(put.ledger, Nil)

\* add_track as it would be with the id appended to the index and the track
\* itself never written.
add_track_index_only(L, args, fail) ==
    LET r == append_id(L, trackIndexStr, args[1], FALSE, fail)
    IN  IF r.err THEN Failure(r.ledger) ELSE Success(r.ledger, Nil)

add_track(L, args, fail) ==
    LET r == append_id(L, trackIndexStr, args[1], FALSE, fail)
    IN  IF r.err THEN Failure(r.ledger)
        ELSE LET put == PutState(r.ledger, r.newId, args[2], fail = 3)
             IN  IF put.err THEN Failure(put.ledger) ELSE Success(put.ledger, Nil)

\* 4c. calculate amount
Amount(percentage, price) == percentage * price

\* 3. loop through beneficiaries of track: the body for beneficiary i and
\* the iterations after it.  Stub calls 2i+1 (get) and 2i+2 (put).
RECURSIVE register_track_loop(_, _, _, _, _, _, _)
register_track_loop(L, beneficiaries, i, price, senderId, senderPayments, fail) ==
    IF i > Len(beneficiaries)
    THEN [err |-> FALSE, ledger |-> L, senderPayments |-> senderPayments]
    ELSE
    LET beneficiary == beneficiaries[i]
        got == GetState(L, beneficiary.AccountId, fail = 2 * i + 1)
    IN  IF got.err
        THEN [err |-> TRUE, ledger |-> L, senderPayments |-> senderPayments]
        ELSE
        LET account_recipient == UnmarshalAccount(got.bytes).val   \* the error is dropped
            pendingPayment ==
                [Amount |-> Amount(beneficiary.Percentage, price),
                 Completed |-> FALSE,
                 Recipient |-> account_recipient.Id,
                 Sender |-> senderId]
            recipient ==
                [account_recipient EXCEPT
                    !.PendingPayments = Append(@, pendingPayment)]
            \* 4g. the error of this PutState is assigned and never read
            put == PutState(L, recipient.Id, MarshalAccount(recipient),
                            fail = 2 * i + 2)
        IN  register_track_loop(put.ledger, beneficiaries, i + 1, price,
                                senderId, Append(senderPayments, pendingPayment),
                                fail)

\* register_track as it would be with the error of unmarshalling the played-by
\* account dropped, the way the loop drops it for a beneficiary.
register_track_sender_unchecked(L, args, fail) ==
    LET gotTrack == GetState(L, args[1], fail = 1)
        t == UnmarshalTrack(gotTrack.bytes)
        gotSender == GetState(L, args[2], fail = 2)
        account_sender == UnmarshalAccount(gotSender.bytes)
    IN  IF gotTrack.err \/ t.err THEN Failure(L)
        ELSE IF gotSender.err THEN Failure(L)
        ELSE LET loop == register_track_loop(L, t.val.Beneficiaries, 1,
                                             t.val.Price, account_sender.val.Id,
                                             <<>>, fail)
             IN  IF loop.err THEN Failure(loop.ledger)
                 ELSE Success(loop.ledger, Nil)

\* register_track: args are trackId, played_by.  Step 5 appends the sender's
\* payments to the local account_sender only; the function ends there, with
\* no PutState of the sender and no return statement (modelled as nil, nil).
register_track(L, args, fail) ==
    LET gotTrack == GetState(L, args[1], fail = 1)
        t == UnmarshalTrack(gotTrack.bytes)
        gotSender == GetState(L, args[2], fail = 2)
        account_sender == UnmarshalAccount(gotSender.bytes)
    IN  IF gotTrack.err \/ t.err THEN Failure(L)
        ELSE IF gotSender.err \/ account_sender.err THEN Failure(L)
        ELSE LET loop == register_track_loop(L, t.val.Beneficiaries, 1,
                                             t.val.Price, account_sender.val.Id,
                                             <<>>, fail)
             IN  IF loop.err THEN Failure(loop.ledger)
                 ELSE Success(loop.ledger, Nil)

\* Init - called when the user deploys the chaincode
ChaincodeInit(L, args) == Success(L, Nil)

Invoke(L, function, args, fail) ==
    IF function = "init" THEN ChaincodeInit(L, args)
    ELSE IF function = "add_account" THEN add_track(L, args, fail)
    ELSE IF function = "add_track" THEN add_track(L, args, fail)
    ELSE IF function = "register_track" THEN register_track(L, args, fail)
    ELSE Failure(L)

-----------------------------------------------------------------------------
(* Query functions *)

\* get_account as it would be if it decoded the account and stored it again.
get_account_storing(L, userID, fail) ==
    LET got == GetState(L, userID, fail = 1)
    IN  IF got.err THEN Failure(L)
        ELSE Success([L EXCEPT ![userID] =
                          MarshalAccount(UnmarshalAccount(got.bytes).val)],
                     got.bytes)

get_account(L, userID, fail) ==
    LET got == GetState(L, userID, fail = 1)
    IN  IF got.err THEN Failure(L) ELSE Success(L, got.bytes)

get_track(L, args, fail) ==
    LET got == GetState(L, args[2], fail = 1)
    IN  IF got.err THEN Failure(L) ELSE Success(L, got.bytes)

\* The loop of get_all_tracks over `over`, collecting into `tracks`.
\* Stub call j + 1 reads entry j.
RECURSIVE get_all_tracks_loop(_, _, _, _, _)
get_all_tracks_loop(L, over, j, tracks, fail) ==
    IF j > Len(over) THEN [err |-> FALSE, tracks |-> tracks]
    ELSE LET got == GetState(L, over[j].Id, fail = j + 1)
         IN  IF got.err THEN [err |-> TRUE, tracks |-> tracks]
             ELSE get_all_tracks_loop(L, over, j + 1,
                      Append(tracks, UnmarshalTrack(got.bytes).val), fail)

\* get_all_tracks: the loop ranges over `tracks`, the slice declared just
\* above it and still nil, not over trackIndex.
get_all_tracks(L, args, fail) ==
    LET got == GetState(L, trackIndexStr, fail = 1)
        trackIndex == UnmarshalIndex(got.bytes)
    IN  IF got.err THEN Failure(L)
        ELSE IF trackIndex.err THEN Failure(L)
        ELSE LET tracks == <<>>
                 loop == get_all_tracks_loop(L, tracks, 1, tracks, fail)
             IN  IF loop.err THEN Failure(L)
                 ELSE Success(L, MarshalTracks(loop.tracks))

\* Query: args[1] (the code's args[0]) is the function name
Query(L, function, args, fail) ==
    IF args[1] = "get_account" THEN get_account(L, args[2], fail)
    ELSE IF args[1] = "get_track" THEN get_track(L, args, fail)
    ELSE IF args[1] = "get_all_tracks" THEN get_all_tracks(L, args, fail)
    ELSE Failure(L)

-----------------------------------------------------------------------------
(* The invocations that are tried *)

TrackT == TrackJson("T", 100, <<Beneficiary("A", 30), Beneficiary("B", 70)>>)

\* A second track JSON for the id T: another price, and shares that add up to 200.
TrackOver == TrackJson("T", 50, <<Beneficiary("A", 60), Beneficiary("B", 140)>>)

\* The keys of the world state: the two indexes, the ids callers use, and
\* the empty id of an Account that did not decode.
Keys == {accountIndexStr, trackIndexStr, "", "A", "B", "P", "T"}

\* args of add_account / add_track: index, JSON object (as string)
AddArgs ==
    { <<"A", AccountJson("A")>>, <<"T", TrackT>>,
      <<"T", TrackOver>>, <<trackIndexStr, TrackT>> }

\* args of register_track: trackId, played_by
RegisterArgs == { <<"T", "P">>, <<"T", "A">>, <<"P", "A">> }

\* the id asked of get_account / get_track
QueryIds == {"A", "T", trackIndexStr}

IndexLen(L, indexStr) == Len(UnmarshalIndex(L[indexStr]).val)

PendingLen(bytes) == Len(UnmarshalAccount(bytes).val.PendingPayments)

NoCall ==
    [kind |-> "none", function |-> "", args |-> <<>>, fail |-> 0,
     err |-> FALSE, payload |-> Nil]

EmptyLedger == [k \in Keys |-> Nil]

\* The world state after the accounts and the track named by seq were
\* registered through Invoke, in turn and without a ledger failure, on the
\* empty ledger.
RECURSIVE Seeded(_)
Seeded(seq) ==
    IF seq = <<>> THEN EmptyLedger
    ELSE LET id == seq[Len(seq)]
             before == Seeded(SubSeq(seq, 1, Len(seq) - 1))
         IN  IF id = "T"
             THEN Invoke(before, "add_track", <<id, TrackT>>, 0).ledger
             ELSE Invoke(before, "add_account", <<id, AccountJson(id)>>, 0).ledger

\* A run starts on the ledger of a fresh deployment or on one where accounts,
\* and a track, were registered before.
Seeds ==
    { <<>>, <<"A", "P">>, <<"A", "B">>, <<"A", "B", "P", "T">> }

Init ==
    /\ \E seq \in Seeds : ledger = Seeded(seq)
    /\ adds = 0
    /\ prev = ledger
    /\ last = NoCall
    /\ returned = <<>>
    /\ ledger0 = ledger

\* The invocation `function(args)` was run and returned r.
Ran(kind, function, args, fail, r) ==
    /\ ledger' = r.ledger
    /\ prev' = ledger
    /\ last' = [kind |-> kind, function |-> function, args |-> args,
                fail |-> fail, err |-> r.err, payload |-> r.payload]

CanAdd == adds < MaxAdds

InvokeInit ==
    /\ last.function # "init"
    /\ Ran("invoke", "init", <<>>, 0, Invoke(ledger, "init", <<>>, 0))
    /\ UNCHANGED <<returned, ledger0, adds>>

InvokeAddAccount ==
    \E args \in AddArgs, fail \in 0..3 :
        /\ CanAdd
        /\ Ran("invoke", "add_account", args, fail,
               Invoke(ledger, "add_account", args, fail))
        /\ adds' = adds + 1
        /\ UNCHANGED <<returned, ledger0>>

InvokeAddTrack ==
    \E args \in AddArgs, fail \in 0..3 :
        /\ CanAdd
        /\ Ran("invoke", "add_track", args, fail,
               Invoke(ledger, "add_track", args, fail))
        /\ adds' = adds + 1
        /\ UNCHANGED <<returned, ledger0>>

InvokeRegisterTrack ==
    \E args \in RegisterArgs, fail \in 0..6 :
        /\ \A k \in Keys : PendingLen(ledger[k]) < MaxPending
        /\ Ran("invoke", "register_track", args, fail,
               Invoke(ledger, "register_track", args, fail))
        /\ UNCHANGED <<returned, ledger0, adds>>

\* The invocation that just succeeded is submitted once more, unchanged: the
\* chaincode is handed the same function and args and sees nothing else.
InvokeReplay ==
    /\ last.kind = "invoke"
    /\ last.function = "register_track"
    /\ ~last.err
    /\ \A k \in Keys : PendingLen(ledger[k]) < MaxPending
    /\ Ran("replay", last.function, last.args, last.fail,
           Invoke(ledger, last.function, last.args, last.fail))
    /\ UNCHANGED <<returned, ledger0, adds>>

InvokeUnknown ==
    /\ last.function # "remove_track"
    /\ Ran("invoke", "remove_track", <<"T">>, 0,
           Invoke(ledger, "remove_track", <<"T">>, 0))
    /\ UNCHANGED <<returned, ledger0, adds>>

QueryGetAccount ==
    \E id \in QueryIds, fail \in 0..1 :
        /\ Ran("query", "get_account", <<"get_account", id>>, fail,
               Query(ledger, "query", <<"get_account", id>>, fail))
        /\ UNCHANGED <<returned, ledger0, adds>>

QueryGetTrack ==
    \E id \in QueryIds, fail \in 0..1 :
        /\ Ran("query", "get_track", <<"get_track", id>>, fail,
               Query(ledger, "query", <<"get_track", id>>, fail))
        /\ UNCHANGED <<returned, ledger0, adds>>

QueryGetAllTracks ==
    \E fail \in 0..1 :
        /\ Ran("query", "get_all_tracks", <<"get_all_tracks">>, fail,
               Query(ledger, "query", <<"get_all_tracks">>, fail))
        /\ UNCHANGED <<returned, ledger0, adds>>

QueryUnknown ==
    /\ last.function # "get_payments"
    /\ Ran("query", "get_payments", <<"get_payments", "A">>, 0,
           Query(ledger, "query", <<"get_payments", "A">>, 0))
    /\ UNCHANGED <<returned, ledger0, adds>>

Next ==
    \/ InvokeInit
    \/ InvokeAddAccount
    \/ InvokeAddTrack
    \/ InvokeRegisterTrack
    \/ InvokeReplay
    \/ InvokeUnknown
    \/ QueryGetAccount
    \/ QueryGetTrack
    \/ QueryGetAllTracks
    \/ QueryUnknown

Spec == Init /\ [][Next]_vars

-----------------------------------------------------------------------------
(* append_id with create = true, which no handler of the chaincode uses:   *)
(* a run of calls on one index key.                                        *)

Candidates == {"t", "t1"}

AppendIdCreate ==
    \E indexStr \in {accountIndexStr, trackIndexStr}, id \in Candidates,
       fail \in 0..2 :
        /\ last.kind = "append_id" => indexStr = last.args[1]
        /\ IndexLen(ledger, indexStr) < MaxCreate
        /\ LET r == append_id(ledger, indexStr, id, TRUE, fail)
           IN  /\ Ran("append_id", "append_id", <<indexStr, id>>, fail,
                      [err |-> r.err, payload |-> Nil, ledger |-> r.ledger])
               /\ returned' =
                    IF r.err THEN returned
                    ELSE Append(returned, [candidate |-> id, id |-> r.newId])
        /\ UNCHANGED <<ledger0, adds>>

NextAppend == AppendIdCreate

\* The index key is absent, a list, or (after add_track with the index key
\* as id) the JSON of a track.
InitAppend ==
    /\ ledger \in { Seeded(seq) : seq \in Seeds } \cup
                  { Invoke(EmptyLedger, "add_track", <<trackIndexStr, TrackT>>, 0).ledger }
    /\ adds = 0
    /\ prev = ledger
    /\ last = NoCall
    /\ returned = <<>>
    /\ ledger0 = ledger

SpecAppend == InitAppend /\ [][NextAppend]_vars

-----------------------------------------------------------------------------
(* Vocabulary of the properties *)

IsPrefix(s, t) == Len(s) <= Len(t) /\ SubSeq(t, 1, Len(s)) = s

\* the pendingPayments of the account stored under key k
Payments(L, k) == UnmarshalAccount(L[k]).val.PendingPayments

\* the ids listed in the index stored under key k
IndexIds(L, k) == UnmarshalIndex(L[k]).val

Ran_register_track == last.kind = "invoke" /\ last.function = "register_track"

\* the track that the last register_track read
PlayedTrack == UnmarshalTrack(prev[last.args[1]]).val

\* bytes hold an account stored under its own id
IsAccountOf(bytes, id) ==
    bytes.kind = "object" /\ bytes.shape = "account" /\ bytes.id = id

\* The last invocation was register_track, no ledger call was refused, the
\* track has beneficiaries and each is a stored account, and so is the player.
CleanPlay ==
    /\ Ran_register_track
    /\ last.fail = 0
    /\ prev[last.args[1]].kind = "object"
    /\ prev[last.args[1]].shape = "track"
    /\ PlayedTrack.Beneficiaries # <<>>
    /\ \A i \in DOMAIN PlayedTrack.Beneficiaries :
          IsAccountOf(prev[PlayedTrack.Beneficiaries[i].AccountId],
                      PlayedTrack.Beneficiaries[i].AccountId)
    /\ IsAccountOf(prev[last.args[2]], last.args[2])

PlayerIsBeneficiary ==
    \E i \in DOMAIN PlayedTrack.Beneficiaries :
        PlayedTrack.Beneficiaries[i].AccountId = last.args[2]

\* C1: a successful register_track appends to each beneficiary's account
\* exactly one payment of percentage * price / 100, not completed, from the
\* player to the beneficiary.
C1_ProportionalShare ==
    (CleanPlay /\ ~last.err) =>
        \A i \in DOMAIN PlayedTrack.Beneficiaries :
            LET b == PlayedTrack.Beneficiaries[i]
            IN  Payments(ledger, b.AccountId) =
                    Append(Payments(prev, b.AccountId),
                           [Amount |-> (b.Percentage * PlayedTrack.Price) \div 100,
                            Completed |-> FALSE,
                            Recipient |-> b.AccountId,
                            Sender |-> last.args[2]])

\* C2: after a successful register_track the stored player account holds its
\* earlier payments followed by one payment per beneficiary, in beneficiary
\* order, each the payment that was appended to that beneficiary.
C2_SenderPaymentsPersisted ==
    (CleanPlay /\ ~last.err /\ ~PlayerIsBeneficiary) =>
        LET bens == PlayedTrack.Beneficiaries
            before == Payments(prev, last.args[2])
            after == Payments(ledger, last.args[2])
        IN  /\ Len(after) = Len(before) + Len(bens)
            /\ SubSeq(after, 1, Len(before)) = before
            /\ \A i \in DOMAIN bens :
                  LET got == Payments(ledger, bens[i].AccountId)
                  IN  got # <<>> /\ after[Len(before) + i] = got[Len(got)]

\* The last register_track read a stored track one of whose beneficiaries was
\* never written, for a stored player, and no ledger call was refused.
UnknownBeneficiaryPlay ==
    /\ Ran_register_track
    /\ last.fail = 0
    /\ prev[last.args[1]].kind = "object"
    /\ prev[last.args[2]].kind = "object"
    /\ \E i \in DOMAIN PlayedTrack.Beneficiaries :
          prev[PlayedTrack.Beneficiaries[i].AccountId] = Nil

\* C3: register_track on a track with a beneficiary that was never written
\* fails and leaves every record of the ledger as it was.
C3_UnknownBeneficiaryAtomic ==
    UnknownBeneficiaryPlay => (last.err /\ ledger = prev)

\* The last invocation was a successful Invoke of function with an id that is
\* no index key.
Added(function) ==
    /\ last.kind = "invoke"
    /\ last.function = function
    /\ ~last.err
    /\ last.args[1] \notin {accountIndexStr, trackIndexStr}

\* C4: a successful add_account appends its id to _accounts, stores the JSON
\* under the id and leaves _tracks alone; a successful add_track appends its
\* id to _tracks and leaves _accounts alone.
C4_IndexOfOwnKind ==
    /\ Added("add_account") =>
          /\ IndexIds(ledger, accountIndexStr) =
                 Append(IndexIds(prev, accountIndexStr), last.args[1])
          /\ ledger[last.args[1]] = last.args[2]
          /\ ledger[trackIndexStr] = prev[trackIndexStr]
    /\ Added("add_track") =>
          /\ IndexIds(ledger, trackIndexStr) =
                 Append(IndexIds(prev, trackIndexStr), last.args[1])
          /\ ledger[last.args[1]] = last.args[2]
          /\ ledger[accountIndexStr] = prev[accountIndexStr]

\* The tracks that the ids of the _tracks index resolve to, in index order.
IndexedTracks(L) ==
    [i \in DOMAIN IndexIds(L, trackIndexStr) |->
        UnmarshalTrack(L[IndexIds(L, trackIndexStr)[i]]).val]

\* The last invocation was get_all_tracks, no ledger call was refused, and the
\* _tracks index lists at least one id, each of them a stored track.
QueriedAllTracks ==
    /\ last.kind = "query"
    /\ last.function = "get_all_tracks"
    /\ last.fail = 0
    /\ IndexIds(ledger, trackIndexStr) # <<>>
    /\ \A i \in DOMAIN IndexIds(ledger, trackIndexStr) :
          LET bytes == ledger[IndexIds(ledger, trackIndexStr)[i]]
          IN  bytes.kind = "object" /\ bytes.shape = "track"

\* C5: get_all_tracks returns the tracks that were added, one per entry of
\* the _tracks index, in insertion order.
C5_AllTracksInOrder ==
    QueriedAllTracks =>
        (~last.err /\ last.payload = MarshalTracks(IndexedTracks(ledger)))

\* C6: each index is append-only: after any invocation the stored index is
\* still a list and has the list before the invocation as a prefix.
C6_IndexAppendOnly ==
    \A k \in {accountIndexStr, trackIndexStr} :
        /\ IsPrefix(IndexIds(prev, k), IndexIds(ledger, k))
        /\ prev[k].kind = "list" => ledger[k].kind = "list"

\* the index key that the run of append_id calls works on
AppendKey == last.args[1]

\* the number of ids that the index of the run decoded to at the start
PriorLength == IndexLen(ledger0, AppendKey)

\* C7 as stated: the identifiers returned by n calls of append_id with
\* create = true are pairwise distinct, whatever the candidate ids.
C7_CreatedIdsDistinct ==
    \A i, j \in DOMAIN returned :
        i < j => returned[i].id # returned[j].id

\* C7 as amended: the n-th successful call returns its candidate followed by
\* the decimal of the index length before it plus one, calls with the same
\* candidate return distinct identifiers, and the index grows by one per call.
C7_CreatedIdsDistinctPerCandidate ==
    returned # <<>> =>
        /\ \A i \in DOMAIN returned :
              returned[i].id = returned[i].candidate \o Itoa(PriorLength + i)
        /\ \A i, j \in DOMAIN returned :
              (i < j /\ returned[i].candidate = returned[j].candidate)
                  => returned[i].id # returned[j].id
        /\ IndexLen(ledger, AppendKey) = PriorLength + Len(returned)

\* Ten calls with one candidate succeeded, two of them on either side of the
\* step from one decimal digit to two.
C7_Witness ==
    /\ Len(returned) >= 10
    /\ \A i \in DOMAIN returned : returned[i].candidate = "t"
    /\ returned[10].id = "t10"
    /\ IndexLen(ledger, AppendKey) = 10

\* C8: a mutating invocation that returns an error leaves the whole ledger
\* as it was before the invocation.
C8_FailedInvocationChangesNothing ==
    (last.kind = "invoke" /\ last.err) => ledger = prev

\* C9: get_account and get_track on an id that was never written return an
\* error.
C9_NeverWrittenIsNotFound ==
    (/\ last.kind = "query"
     /\ last.function \in {"get_account", "get_track"}
     /\ ledger[last.args[2]] = Nil) => last.err

\* C10: register_track whose track id or player account id resolves to no
\* stored record returns an error and writes nothing.
C10_MissingTrackOrPlayerNoWrite ==
    (/\ Ran_register_track
     /\ (prev[last.args[1]] = Nil \/ prev[last.args[2]] = Nil))
        => (last.err /\ ledger = prev)

\* register_track found the track, with a stored beneficiary to pay, but no
\* record of the player, and no ledger call was refused.
C10_Witness ==
    /\ Ran_register_track
    /\ last.fail = 0
    /\ prev[last.args[1]].kind = "object"
    /\ prev[last.args[2]] = Nil
    /\ \E i \in DOMAIN PlayedTrack.Beneficiaries :
          prev[PlayedTrack.Beneficiaries[i].AccountId].kind = "object"
    /\ last.err
    /\ ledger = prev


\* C11: register_track submitted a second time with identical arguments, as
\* a replay of the same transaction, creates no duplicate payments: every
\* account is left as the first invocation left it.
C11_ReplayCreatesNoDuplicates ==
    (last.kind = "replay" /\ last.function = "register_track") =>
        \A k \in Keys : Payments(ledger, k) = Payments(prev, k)

\* bytes hold an account (whatever key they are stored under)
IsAccount(bytes) == bytes.kind = "object" /\ bytes.shape = "account"

\* bytes hold a track
IsTrack(bytes) == bytes.kind = "object" /\ bytes.shape = "track"

\* C12: payments and accounts are never deleted: after any invocation every
\* account stored before it is still stored, and its pendingPayments have the
\* earlier pendingPayments as a prefix.
C12_PaymentsNeverDeleted ==
    \A k \in Keys :
        IsAccount(prev[k]) =>
            /\ IsAccount(ledger[k])
            /\ IsPrefix(Payments(prev, k), Payments(ledger, k))

\* C13: a track is immutable once created: no invocation changes the record
\* stored under the id of a track.
C13_TrackImmutable ==
    \A k \in Keys \ {accountIndexStr, trackIndexStr} :
        IsTrack(prev[k]) => ledger[k] = prev[k]


\* A successful add_track(t.id, t) of a track t has just run.
AddedOwnTrack ==
    /\ Added("add_track")
    /\ ~last.err
    /\ IsTrack(last.args[2])
    /\ last.args[2].id = last.args[1]

\* C14: round trip: get_track(t.id) issued right after a successful
\* add_track(t.id, t) succeeds and returns t.
C14_TrackRoundTrip ==
    AddedOwnTrack =>
        LET r == Query(ledger, "query", <<"get_track", last.args[1]>>, 0)
        IN  /\ ~r.err
            /\ r.payload = last.args[2]

C14_Witness ==
    /\ AddedOwnTrack
    /\ last.args[2] = TrackT
    /\ prev["T"] = Nil
    /\ Query(ledger, "query", <<"get_track", "T">>, 0).payload = TrackT

\* C15: get_all_tracks on a ledger whose _tracks key was never written
\* succeeds and returns an empty collection; it does not return an error.
C15_MissingIndexIsEmpty ==
    (/\ last.kind = "query"
     /\ last.function = "get_all_tracks"
     /\ last.fail = 0
     /\ prev[trackIndexStr] = Nil) =>
        /\ ~last.err
        /\ last.payload \in {Null, MarshalIndex(<<>>)}


\* C16: append_id fails, and writes nothing, when the bytes stored under the
\* index key are present but are not a list of identifiers; it never replaces
\* an unparsable stored index with a fresh one-element list.
C16_UnparsableIndexRejected ==
    (/\ last.kind = "append_id"
     /\ last.fail = 0
     /\ prev[AppendKey].kind \notin {"nil", "list"}) =>
        /\ last.err
        /\ ledger = prev


\* the sum of the percentages of a list of beneficiaries
RECURSIVE SumPercentages(_)
SumPercentages(beneficiaries) ==
    IF beneficiaries = <<>> THEN 0
    ELSE Head(beneficiaries).Percentage + SumPercentages(Tail(beneficiaries))

\* a track that the claim says must be refused
OutOfRange(bytes) ==
    /\ IsTrack(bytes)
    /\ \/ bytes.price < 0
       \/ SumPercentages(bytes.beneficiaries) > 100

\* C17: add_track rejects, and stores nothing of, a track whose price is
\* negative or whose beneficiary percentages sum to more than 100; hence the
\* percentages of every stored track sum to at most 100.
C17_OutOfRangeTrackRejected ==
    /\ (/\ last.kind = "invoke"
        /\ last.function = "add_track"
        /\ OutOfRange(last.args[2])) =>
            /\ last.err
            /\ ledger = prev
    /\ \A k \in Keys : ~OutOfRange(ledger[k])


\* C18: the queries get_account, get_track and get_all_tracks are read-only:
\* the ledger after a query is the ledger before it, whether the query
\* succeeds or fails.
C18_QueriesReadOnly ==
    last.kind = "query" => ledger = prev

C18_Witness ==
    /\ last.kind = "query"
    /\ last.function = "get_account"
    /\ ~last.err
    /\ IsTrack(prev[last.args[2]])
    /\ last.payload = prev[last.args[2]]

\* C19: when the player of a successful register_track is itself a
\* beneficiary of the track, its stored pendingPayments hold, after the
\* earlier ones, the payment it receives and the sender-side payment of every
\* beneficiary.
C19_PlayerBeneficiaryKeepsBoth ==
    (CleanPlay /\ ~last.err /\ PlayerIsBeneficiary) =>
        LET bens == PlayedTrack.Beneficiaries
            player == last.args[2]
            before == Payments(prev, player)
            after == Payments(ledger, player)
        IN  /\ IsPrefix(before, after)
            /\ \A i \in DOMAIN bens :
                  \E j \in (Len(before) + 1)..Len(after) :
                      /\ after[j].Recipient = bens[i].AccountId
                      /\ after[j].Sender = player


\* C20: after any sequence of invocations the value stored under _tracks is a
\* list of identifiers, every identifier in it is the key of a stored record,
\* and no identifier occurs in it twice.
C20_TrackIndexConsistent ==
    ledger[trackIndexStr] # Nil =>
        LET ids == IndexIds(ledger, trackIndexStr)
        IN  /\ ledger[trackIndexStr].kind = "list"
            /\ \A i \in DOMAIN ids : ledger[ids[i]] # Nil
            /\ \A i, j \in DOMAIN ids : ids[i] = ids[j] => i = j

====
